---- MODULE Spec2Model ----
(***************************************************************************)
(* Model of wip_app.py: the POST /wip handler, the Airtable fetcher        *)
(* get_client_projects and the HTML renderer build_wip_email.              *)
(*                                                                         *)
(* Text is modelled as a sequence of tokens.  A token is either a word of  *)
(* an interpolated value or a chunk of the literal template, so that an    *)
(* f-string is the concatenation of its chunks and values in order and a   *)
(* substring search is a search for a contiguous run of tokens.            *)
(***************************************************************************)
EXTENDS Integers, Sequences, FiniteSets, TLC

\* ------------------------------------------------------------------ bounds
MaxActive == 2
MaxCompleted == 1

\* --------------------------------------------------------------- helpers
\* dict.get(key, default)
Get(d, k, default) == IF k \in DOMAIN d THEN d[k] ELSE default

NoFields == [k \in {} |-> k]

\* every list over S of length at most n
SeqUpTo(S, n) == UNION {[1..k -> S] : k \in 0..n}

\* where the run of tokens m occurs in text
Positions(text, m) ==
    {i \in 1..(Len(text) - Len(m) + 1) : \A k \in 1..Len(m) : text[i + k - 1] = m[k]}

\* m in text
Contains(text, m) == Positions(text, m) # {}

\* ---------------------------------------------------------- configuration
client_map ==
    [ONE |-> <<"One", "NZ">>,
     ONS |-> <<"One", "NZ", "(Simplification)">>,
     SKY |-> <<"Sky">>,
     TOW |-> <<"Tower">>,
     FIS |-> <<"Fisher", "Funds">>,
     FST |-> <<"Firestop">>,
     HUN |-> <<"Hunch">>,
     EON |-> <<"Eon", "Fibre">>,
     LAB |-> <<"Labour">>,
     OTH |-> <<"Other">>]

\* client_map.get(client_code, client_code): a code is a one-word text
DisplayName(client_code) ==
    IF Len(client_code) = 1 /\ client_code[1] \in DOMAIN client_map
    THEN client_map[client_code[1]]
    ELSE client_code

\* ------------------------------------------------- the external record store
\* The texts a field of a stored record may hold; one of them is the title
\* of a report section.
PlainName == <<"Brand", "film">>
MarkerName == <<"WITH", "US">>

\* One record of the store's JSON: {"fields": {...}}, a field being present
\* or not.
StoreRecord(status, with_client, name, full) ==
    [fields |->
        ("Project Name" :> name)
        @@ (IF status = "" THEN NoFields ELSE "Status" :> status)
        @@ (IF with_client THEN "With Client?" :> TRUE ELSE NoFields)
        @@ (IF full
            THEN ("Job Number" :> <<"ONE", "001">>)
                 @@ ("Description" :> <<"Launch">>)
                 @@ ("Stage" :> <<"Craft">>)
                 @@ ("Live Date" :> <<"TBC">>)
            ELSE NoFields)]

\* What the store may answer to a query.  The filter formula is evaluated
\* by the store, so the status of a returned record is whatever the store
\* sends: a status the filter asks for, another one, or none.  The records
\* named like a section title carry the name alone, the others every field
\* the report shows.
StoreRecords ==
    {StoreRecord(st, wc, PlainName, TRUE) :
        st \in {"In Progress", "On Hold", ""}, wc \in BOOLEAN}
    \cup {StoreRecord(st, FALSE, MarkerName, FALSE) :
        st \in {"In Progress", "On Hold", ""}}

CompletedStoreRecords ==
    {StoreRecord("Completed", FALSE, nm[1], nm[2]) :
        nm \in {<<PlainName, TRUE>>, <<MarkerName, FALSE>>}}

\* ------------------------------------------------------ get_client_projects
\* the dict appended to active_projects for one record
ActiveProject(record) ==
    LET fields == Get(record, "fields", NoFields) IN
    [job_number |-> Get(fields, "Job Number", <<>>),
     job_name |-> Get(fields, "Project Name", <<>>),
     description |-> Get(fields, "Description", <<>>),
     stage |-> Get(fields, "Stage", <<>>),
     status |-> Get(fields, "Status", ""),
     with_client |-> Get(fields, "With Client?", FALSE),
     latest_update |-> Get(fields, "Latest Update", <<>>),
     update_due |-> Get(fields, "Update Due", <<>>),
     live_date |-> Get(fields, "Live Date", <<>>)]

\* the dict appended to completed_projects for one record
CompletedProject(record) ==
    LET fields == Get(record, "fields", NoFields) IN
    [job_number |-> Get(fields, "Job Number", <<>>),
     job_name |-> Get(fields, "Project Name", <<>>),
     description |-> Get(fields, "Description", <<>>)]

ActiveProjects(records) == [i \in 1..Len(records) |-> ActiveProject(records[i])]

CompletedProjects(records) ==
    [i \in 1..Len(records) |-> CompletedProject(records[i])]

\* ---------------------------------------------------------- build_wip_email
\* the three comprehensions that sort the projects into categories
IsWithUs(p) == p.status = "In Progress" /\ ~p.with_client
\* faulty variant: the with_client test of the second comprehension left out
IsWithYouAnyOwner(p) == p.status = "In Progress"

IsWithYou(p) == p.status = "In Progress" /\ p.with_client
IsOnHold(p) == p.status = "On Hold"

with_us(projects) == SelectSeq(projects, IsWithUs)
with_you(projects) == SelectSeq(projects, IsWithYou)
\* faulty variant: every record that is not in progress taken as on hold
IsNotInProgress(p) == p.status # "In Progress"
on_hold_else(projects) == SelectSeq(projects, IsNotInProgress)

on_hold(projects) == SelectSeq(projects, IsOnHold)

\* chunks of the literal template
RowOpen == "<tr><td style='padding: 12px; border-bottom: 1px solid #eee;'><strong style='color: #ED1C24;'>"
RowMid == "</td><td style='padding: 12px; border-bottom: 1px solid #eee; text-align: right;'>"
RowClose == "</td></tr>"
StageOpen == "<span style='background-color: #f0f0f0; padding: 2px 8px; border-radius: 3px; font-size: 12px;'>"
LiveOpen == "<br><span style='color: #666; font-size: 12px;'>Live:"
DescOpen == "<br><span style='color: #666; font-size: 14px;'>"
SectionOpen == "<table width='100%' cellpadding='0' cellspacing='0' style='margin-bottom: 24px;'><tr><td colspan='2' style='padding: 12px; background-color: #f8f8f8; border-left: 4px solid #ED1C24;'><strong>"
CountOpen == "</strong> <span style='color: #666;'>("
CountClose == "projects)</span></td></tr>"
TableClose == "</table>"
CompletedOpen == "<table width='100%' cellpadding='0' cellspacing='0' style='margin-top: 32px; border-top: 2px solid #eee; padding-top: 24px;'><tr><td style='padding: 12px;'><strong>"
CompletedListOpen == "</strong><ul style='margin-top: 12px; padding-left: 20px; color: #666;'>"
CompletedClose == "</ul></td></tr>"
ItemOpen == "<li style='margin-bottom: 8px;'><strong style='color: #ED1C24;'>"
ItemClose == "</li>"
DocOpen == "<!DOCTYPE html><html><head>...</head><body><table><tr><td align='center'><table class='wrapper'><tr><td class='header-banner'><h1>Work in Progress</h1><p>"
HeaderClose == "</p></td></tr><tr><td style='padding: 24px 20px;'>"
DocClose == "</td></tr><tr><td>Generated by Dot @ Hunch</td></tr></table></td></tr></table></body></html>"

project_row(project, show_stage) ==
    LET stage_html ==
            IF show_stage /\ project.stage # <<>>
            THEN <<StageOpen>> \o project.stage \o <<"</span>">>
            ELSE <<>>
        live_date ==
            IF project.live_date # <<>>
            THEN <<LiveOpen>> \o project.live_date \o <<"</span>">>
            ELSE <<>>
    IN  <<RowOpen>> \o project.job_number \o <<"</strong>", "-">>
        \o project.job_name \o <<DescOpen>> \o project.description
        \o <<"</span>">> \o live_date \o <<RowMid>> \o stage_html
        \o <<RowClose>>

RECURSIVE Rows(_, _)
\* "".join([project_row(p, show_stage) for p in project_list])
Rows(project_list, show_stage) ==
    IF project_list = <<>> THEN <<>>
    ELSE project_row(Head(project_list), show_stage)
         \o Rows(Tail(project_list), show_stage)

\* faulty variant: the header shows the index of the last record
SectionCountLastIndex(project_list) == ToString(Len(project_list) - 1)

\* the count a section header shows: {len(project_list)}
SectionCount(project_list) == ToString(Len(project_list))

\* faulty variant: the test for an empty bucket left out
section_always(title, emoji, project_list, show_stage) ==
    <<SectionOpen, emoji>> \o title
    \o <<CountOpen, SectionCount(project_list), CountClose>>
    \o Rows(project_list, show_stage) \o <<TableClose>>

section(title, emoji, project_list, show_stage) ==
    IF project_list = <<>> THEN <<>>
    ELSE <<SectionOpen, emoji>> \o title
         \o <<CountOpen, SectionCount(project_list), CountClose>>
         \o Rows(project_list, show_stage) \o <<TableClose>>

completed_item(p) ==
    <<ItemOpen>> \o p.job_number \o <<"</strong>", "-">> \o p.job_name
    \o <<"-">> \o p.description \o <<ItemClose>>

RECURSIVE Items(_)
\* "".join([<li>...</li> for p in completed_list])
Items(completed_list) ==
    IF completed_list = <<>> THEN <<>>
    ELSE completed_item(Head(completed_list)) \o Items(Tail(completed_list))

TitleCompleted == <<"RECENTLY", "COMPLETED">>

completed_section(completed_list) ==
    IF completed_list = <<>> THEN <<>>
    ELSE <<CompletedOpen, "check-mark">> \o TitleCompleted
         \o <<CompletedListOpen>> \o Items(completed_list)
         \o <<CompletedClose, TableClose>>

TitleWithUs == <<"WITH", "US">>
TitleWithYou == <<"WITH", "YOU">>
TitleOnHold == <<"ON", "HOLD">>

MonthName ==
    <<"January", "February", "March", "April", "May", "June", "July",
      "August", "September", "October", "November", "December">>

\* date.strftime('%d %B %Y'): a zero-padded day, the month's name, the year
Today(date) ==
    <<(IF date.day < 10 THEN "0" ELSE "") \o ToString(date.day),
      MonthName[date.month], ToString(date.year)>>

\* the sections of the report, in the order the template interpolates them
Sections(projects, completed_projects) ==
    section(TitleWithUs, "hammer", with_us(projects), TRUE)
    \o section(TitleWithYou, "outbox", with_you(projects), TRUE)
    \o section(TitleOnHold, "pause", on_hold(projects), FALSE)
    \o completed_section(completed_projects)

build_wip_email(client_name, projects, completed_projects, date) ==
    <<DocOpen>> \o client_name \o <<"|">> \o Today(date) \o <<HeaderClose>>
    \o Sections(projects, completed_projects)
    \o <<DocClose>>

\* ------------------------------------------------------------- the service
VARIABLES
    api_key,            \* AIRTABLE_API_KEY is set in the environment
    pc,                 \* where the request being handled is
    body,               \* the body of the request
    client_code,        \* wip: client_code
    fetched,            \* get_client_projects: active_projects
    ret,                \* the tuple get_client_projects returns
    calls,              \* the outbound httpx.get calls of this request, in order
    outcomes,           \* how each of them ended: "ok" or "error"
    invoked,            \* the functions wip has called for this request
    response            \* the response to the request

vars ==
    <<api_key, pc, body, client_code, fetched, ret, calls, outcomes, invoked,
      response>>

\* request bodies: a JSON object, JSON that is no object, or no JSON at all
Bodies ==
    {[kind |-> "object", obj |-> o] :
        o \in {NoFields, "clientCode" :> <<>>, "clientCode" :> <<"ONE">>,
               "clientCode" :> <<"XYZ">>}}
    \cup {[kind |-> k, obj |-> NoFields] : k \in {"array", "null", "malformed"}}

\* the server clock: datetime.now()
Dates ==
    {[day |-> 2, month |-> 11, year |-> 2026],
     [day |-> 15, month |-> 1, year |-> 2027]}

NoResponse == [status |-> 0, json |-> NoFields]

Respond(status, json) == [status |-> status, json |-> json]

BadRequest == Respond(400, [error |-> "No client code provided"])

\* faulty variant: the 404 echoes the display name instead of the code
NotFoundEchoesName(code) ==
    Respond(404, [error |-> "No projects found", clientCode |-> DisplayName(code)])

NotFound(code) ==
    Respond(404, [error |-> "No projects found", clientCode |-> code])

InternalError(details) ==
    Respond(500, [error |-> "Internal server error", details |-> details])

\* faulty variant: activeCount counts the completed records too
SuccessTotalCount(code, display_name, active_projects, completed_projects, html) ==
    Respond(200,
        [clientCode |-> code,
         clientName |-> display_name,
         activeCount |-> Len(active_projects) + Len(completed_projects),
         completedCount |-> Len(completed_projects),
         html |-> html])

Success(code, display_name, active_projects, completed_projects, html) ==
    Respond(200,
        [clientCode |-> code,
         clientName |-> display_name,
         activeCount |-> Len(active_projects),
         completedCount |-> Len(completed_projects),
         html |-> html])

\* if not active_projects and not completed_projects
NoProjects(active_projects, completed_projects) ==
    active_projects = <<>> /\ completed_projects = <<>>

\* faulty variant: the except clause returns the active records already fetched
FetchFailedKeepsActive(code) == <<fetched, <<>>, code>>

\* the except clause of get_client_projects: return [], [], client_code
FetchFailed(code) == <<<<>>, <<>>, code>>

\* the early return of get_client_projects: return [], []
NotConfigured == <<<<>>, <<>>>>

Init ==
    /\ api_key \in BOOLEAN
    /\ pc = "idle"
    /\ body = [kind |-> "null", obj |-> NoFields]
    /\ client_code = <<>>
    /\ fetched = <<>>
    /\ ret = <<>>
    /\ calls = <<>>
    /\ outcomes = <<>>
    /\ invoked = <<>>
    /\ response = NoResponse

\* POST /wip arrives: wip() up to the call of get_client_projects
WipRequest(b) ==
    /\ pc \in {"idle", "done"}
    /\ body' = b
    /\ fetched' = <<>>
    /\ ret' = <<>>
    /\ calls' = <<>>
    /\ outcomes' = <<>>
    /\ IF b.kind = "malformed"
       THEN \* request.get_json() raises
            /\ client_code' = <<>>
            /\ invoked' = <<>>
            /\ response' = InternalError("BadRequest")
            /\ pc' = "done"
       ELSE IF b.kind # "object"
       THEN \* data.get raises AttributeError
            /\ client_code' = <<>>
            /\ invoked' = <<>>
            /\ response' = InternalError("AttributeError")
            /\ pc' = "done"
       ELSE LET code == Get(b.obj, "clientCode", <<>>) IN
            /\ client_code' = code
            /\ IF code = <<>>
               THEN /\ invoked' = <<>>
                    /\ response' = BadRequest
                    /\ pc' = "done"
               ELSE /\ invoked' = <<"get_client_projects">>
                    /\ response' = NoResponse
                    /\ pc' = "fetch"
    /\ UNCHANGED api_key

\* get_client_projects without a bearer token returns at once
FetchNotConfigured ==
    /\ pc = "fetch"
    /\ ~api_key
    /\ ret' = NotConfigured
    /\ pc' = "return"
    /\ UNCHANGED <<api_key, body, client_code, fetched, calls, outcomes,
                   invoked, response>>

\* get_client_projects issues the query for the active records
ActiveQuery ==
    /\ pc = "fetch"
    /\ api_key
    /\ calls' = Append(calls, "active")
    /\ pc' = "active_query"
    /\ UNCHANGED <<api_key, body, client_code, fetched, ret, outcomes,
                   invoked, response>>

\* faulty variant: a failed active-records query is issued again
ActiveQueryRetries ==
    /\ pc = "active_query"
    /\ outcomes' = Append(outcomes, "error")
    /\ calls' = Append(calls, "active")
    /\ UNCHANGED <<api_key, pc, body, client_code, fetched, ret, invoked,
                   response>>

\* httpx.get or raise_for_status raises: transport error, timeout, status
ActiveQueryFails ==
    /\ pc = "active_query"
    /\ outcomes' = Append(outcomes, "error")
    /\ ret' = FetchFailed(client_code)
    /\ pc' = "return"
    /\ UNCHANGED <<api_key, body, client_code, fetched, calls, invoked,
                   response>>

\* the active records arrive and the query for the completed ones is issued
ActiveQueryReturns(records) ==
    /\ pc = "active_query"
    /\ outcomes' = Append(outcomes, "ok")
    /\ fetched' = ActiveProjects(records)
    /\ calls' = Append(calls, "completed")
    /\ pc' = "completed_query"
    /\ UNCHANGED <<api_key, body, client_code, ret, invoked, response>>

CompletedQueryFails ==
    /\ pc = "completed_query"
    /\ outcomes' = Append(outcomes, "error")
    /\ ret' = FetchFailed(client_code)
    /\ pc' = "return"
    /\ UNCHANGED <<api_key, body, client_code, fetched, calls, invoked,
                   response>>

CompletedQueryReturns(records) ==
    /\ pc = "completed_query"
    /\ outcomes' = Append(outcomes, "ok")
    /\ ret' = <<fetched, CompletedProjects(records), DisplayName(client_code)>>
    /\ pc' = "return"
    /\ UNCHANGED <<api_key, body, client_code, fetched, calls, invoked,
                   response>>

\* wip() from the unpacking of the fetcher's result to the response
WipRespond(date) ==
    /\ pc = "return"
    /\ pc' = "done"
    /\ IF Len(ret) # 3
       THEN \* active_projects, completed_projects, display_name = ... raises
            /\ response' = InternalError("ValueError")
            /\ UNCHANGED invoked
       ELSE LET active_projects == ret[1]
                completed_projects == ret[2]
                display_name == ret[3]
            IN  IF NoProjects(active_projects, completed_projects)
                THEN /\ response' = NotFound(client_code)
                     /\ UNCHANGED invoked
                ELSE /\ invoked' = Append(invoked, "build_wip_email")
                     /\ response' =
                            Success(client_code, display_name, active_projects,
                                    completed_projects,
                                    build_wip_email(display_name, active_projects,
                                                    completed_projects, date))
    /\ UNCHANGED <<api_key, body, client_code, fetched, ret, calls, outcomes>>

Next ==
    \/ \E b \in Bodies : WipRequest(b)
    \/ FetchNotConfigured
    \/ ActiveQuery
    \/ ActiveQueryFails
    \/ \E records \in SeqUpTo(StoreRecords, MaxActive) :
            ActiveQueryReturns(records)
    \/ CompletedQueryFails
    \/ \E records \in SeqUpTo(CompletedStoreRecords, MaxCompleted) :
            CompletedQueryReturns(records)
    \/ \E date \in Dates : WipRespond(date)

Spec == Init /\ [][Next]_vars

\* ------------------------------------------------- reading a response back
Range(s) == {s[i] : i \in DOMAIN s}

Done == pc = "done"

Is200 == Done /\ response.status = 200

\* the client code the request supplied ("" when it supplies none)
SuppliedCode ==
    IF body.kind = "object" THEN Get(body.obj, "clientCode", <<>>) ELSE <<>>

\* the lists wip() passed to build_wip_email
PassedActive == ret[1]
PassedCompleted == ret[2]

Html == response.json.html

\* where the header of a section starts in the html
HeaderAt(html, open, emoji, title) == Positions(html, <<open, emoji>> \o title)

\* the tokens of the section whose header starts at i: up to its </table>
SectionAt(html, i) ==
    LET close == CHOOSE j \in i..Len(html) :
                    /\ html[j] = TableClose
                    /\ \A k \in i..(j - 1) : html[k] # TableClose
    IN  SubSeq(html, i, close)

\* the rows or list items a section holds
Entries(sec) == Cardinality({i \in DOMAIN sec : sec[i] \in {RowOpen, ItemOpen}})

\* the number a section's header displays after its title, -1 when none
Displayed(sec, title) ==
    LET at == 3 + Len(title) IN
    IF at + 1 <= Len(sec) /\ sec[at] = CountOpen
       /\ \E n \in 0..Len(sec) : ToString(n) = sec[at + 1]
    THEN CHOOSE n \in 0..Len(sec) : ToString(n) = sec[at + 1]
    ELSE -1

\* the four sections in the order of the template: title, emoji, opening chunk
SectionHeads ==
    <<[title |-> TitleWithUs, emoji |-> "hammer", open |-> SectionOpen],
      [title |-> TitleWithYou, emoji |-> "outbox", open |-> SectionOpen],
      [title |-> TitleOnHold, emoji |-> "pause", open |-> SectionOpen],
      [title |-> TitleCompleted, emoji |-> "check-mark", open |-> CompletedOpen]>>

\* the bucket of the i-th section
Bucket(i) ==
    CASE i = 1 -> with_us(PassedActive)
      [] i = 2 -> with_you(PassedActive)
      [] i = 3 -> on_hold(PassedActive)
      [] i = 4 -> PassedCompleted

Headers(i) ==
    HeaderAt(Html, SectionHeads[i].open, SectionHeads[i].emoji,
             SectionHeads[i].title)

Rendered(i) == Headers(i) # {}

TheSection(i) == SectionAt(Html, CHOOSE h \in Headers(i) : TRUE)

\* the values build_wip_email interpolates into the template
Interpolated ==
    {ret[3]}
    \cup UNION {{p.job_number, p.job_name, p.description, p.stage, p.live_date} :
                    p \in Range(PassedActive)}
    \cup UNION {{p.job_number, p.job_name, p.description} :
                    p \in Range(PassedCompleted)}

\* ------------------------------------------------------------------ claims
\* C1 (as stated): a request whose body carries no non-empty client code,
\* a body that is no JSON object included, is answered 400 'No client code
\* provided' and get_client_projects is not invoked.
C1_NoCodeIs400 ==
    (Done /\ SuppliedCode = <<>>) =>
        /\ response = Respond(400, [error |-> "No client code provided"])
        /\ invoked = <<>>

\* C2: with a non-empty client code, when both queries succeed and return no
\* record the answer is 404, echoes the supplied code unchanged, and
\* build_wip_email is not invoked.
C2_NoRecordsIs404 ==
    (Done /\ SuppliedCode # <<>> /\ outcomes = <<"ok", "ok">>
          /\ fetched = <<>> /\ ret[2] = <<>>) =>
        /\ response.status = 404
        /\ response.json.clientCode = SuppliedCode
        /\ "build_wip_email" \notin Range(invoked)

C2_Witness ==
    /\ Done
    /\ SuppliedCode = <<"ONE">>
    /\ outcomes = <<"ok", "ok">>
    /\ fetched = <<>> /\ ret[2] = <<>>
    /\ response.status = 404

\* C3: when either query fails the fetcher returns an empty active list and
\* an empty completed list, the records of the first query discarded, and
\* the answer is 404: never 500, never a 200 with a partial report.
C3_FailedFetchIs404 ==
    ("error" \in Range(outcomes) /\ pc \in {"return", "done"}) =>
        /\ Len(ret) = 3 /\ ret[1] = <<>> /\ ret[2] = <<>>
        /\ Done => /\ response.status = 404
                   /\ "build_wip_email" \notin Range(invoked)

C3_Witness ==
    /\ Done
    /\ outcomes = <<"ok", "error">>
    /\ fetched # <<>>
    /\ response.status = 404

\* C4 (as stated): whenever get_client_projects yields an empty result set
\* for a non-empty client code, the early return without a bearer token
\* included, the answer is 404 'No projects found' echoing the code; without
\* a token no outbound call is made and the answer is not 500.
C4_EmptyFetchIs404 ==
    (Done /\ invoked # <<>> /\ ret[1] = <<>> /\ ret[2] = <<>>) =>
        /\ response =
             Respond(404, [error |-> "No projects found",
                           clientCode |-> SuppliedCode])
        /\ ~api_key => (calls = <<>> /\ response.status # 500)

\* how often the value p occurs in the list s
Occ(s, p) == Cardinality({i \in DOMAIN s : s[i] = p})

Recognized(p) == p.status \in {"In Progress", "On Hold"}

\* C5: for the list passed to build_wip_email the buckets are pairwise
\* disjoint: a record with status 'In Progress' or 'On Hold' is in exactly
\* one bucket, chosen by status and with_client alone, any other record is in
\* none; the bucket sizes add up to at most the size of the input, and to
\* exactly that only when every record has a recognized status.
C5_BucketsDisjoint ==
    Is200 =>
        LET projects == PassedActive
            us == with_us(projects)
            you == with_you(projects)
            hold == on_hold(projects)
            total == Len(us) + Len(you) + Len(hold)
        IN  /\ \A p \in Range(projects) :
                LET n == Occ(projects, p) IN
                /\ (p.status = "In Progress" /\ ~p.with_client) =>
                      Occ(us, p) = n /\ Occ(you, p) = 0 /\ Occ(hold, p) = 0
                /\ (p.status = "In Progress" /\ p.with_client) =>
                      Occ(us, p) = 0 /\ Occ(you, p) = n /\ Occ(hold, p) = 0
                /\ p.status = "On Hold" =>
                      Occ(us, p) = 0 /\ Occ(you, p) = 0 /\ Occ(hold, p) = n
                /\ ~Recognized(p) =>
                      Occ(us, p) = 0 /\ Occ(you, p) = 0 /\ Occ(hold, p) = 0
            /\ Range(us) \cup Range(you) \cup Range(hold) \subseteq Range(projects)
            /\ total <= Len(projects)
            /\ total = Len(projects) <=> \A p \in Range(projects) : Recognized(p)

C5_Witness ==
    /\ Is200
    /\ Len(PassedActive) = 2
    /\ \E p \in Range(PassedActive) : ~Recognized(p)
    /\ \E p \in Range(PassedActive) : p.status = "In Progress" /\ p.with_client
    /\ Len(with_you(PassedActive)) = 1
    /\ with_us(PassedActive) = <<>> /\ on_hold(PassedActive) = <<>>

\* the sections are rendered for the non-empty buckets only, once each and
\* in the order WITH US, WITH YOU, ON HOLD, RECENTLY COMPLETED
SectionsInOrder ==
    /\ \A i \in DOMAIN SectionHeads :
          /\ Rendered(i) <=> Bucket(i) # <<>>
          /\ Cardinality(Headers(i)) <= 1
    /\ \A i, j \in DOMAIN SectionHeads :
          (i < j /\ Rendered(i) /\ Rendered(j)) =>
              \A a \in Headers(i), b \in Headers(j) : a < b

\* C6 (as stated): sections appear for the non-empty buckets only and in the
\* fixed order, and for every input the marker text of an empty bucket occurs
\* nowhere in the html.
C6_EmptyBucketMarkerAbsent ==
    Is200 =>
        /\ SectionsInOrder
        /\ \A i \in DOMAIN SectionHeads :
              Bucket(i) = <<>> => ~Contains(Html, SectionHeads[i].title)

\* C6 (amended): sections appear for the non-empty buckets only and in the
\* fixed order; the marker text of an empty bucket occurs nowhere in the html
\* provided no interpolated value (the client name, a field of a record)
\* contains it.
C6_EmptyBucketNoSection ==
    Is200 =>
        /\ SectionsInOrder
        /\ \A i \in DOMAIN SectionHeads :
              (/\ Bucket(i) = <<>>
               /\ \A v \in Interpolated : ~Contains(v, SectionHeads[i].title)) =>
                  ~Contains(Html, SectionHeads[i].title)

C6_Witness ==
    /\ Is200
    /\ with_us(PassedActive) = <<>>
    /\ Len(on_hold(PassedActive)) = 1
    /\ PassedCompleted # <<>>
    /\ Rendered(3) /\ Rendered(4)
    /\ ~Contains(Html, TitleWithUs)

\* C7 (as stated): every rendered section, RECENTLY COMPLETED included, has
\* a header that displays the number of records of its bucket, and that
\* number is the number of rows or items the section renders.
C7_EverySectionShowsCount ==
    Is200 =>
        \A i \in DOMAIN SectionHeads :
            Rendered(i) =>
                LET sec == TheSection(i) IN
                /\ Displayed(sec, SectionHeads[i].title) = Len(Bucket(i))
                /\ Displayed(sec, SectionHeads[i].title) = Entries(sec)

\* C7 (amended): every rendered WITH US, WITH YOU and ON HOLD section has a
\* header that displays the number of records of its bucket, equal to the
\* number of rows it renders; the RECENTLY COMPLETED section renders one item
\* per completed record and its header displays no count.
C7_ActiveSectionsShowCount ==
    Is200 =>
        /\ \A i \in 1..3 :
              Rendered(i) =>
                  LET sec == TheSection(i) IN
                  /\ Displayed(sec, SectionHeads[i].title) = Len(Bucket(i))
                  /\ Displayed(sec, SectionHeads[i].title) = Entries(sec)
        /\ Rendered(4) =>
              LET sec == TheSection(4) IN
              /\ Entries(sec) = Len(PassedCompleted)
              /\ Displayed(sec, TitleCompleted) = -1

C7_Witness ==
    /\ Is200
    /\ Rendered(1) /\ Rendered(4)
    /\ Len(with_us(PassedActive)) = 2
    /\ Displayed(TheSection(1), TitleWithUs) = 2
    /\ Entries(TheSection(1)) = 2
    /\ Entries(TheSection(4)) = 1

\* C8: when the fetch for a non-empty code returns at least one active or
\* completed record the answer is 200 with clientCode the supplied code,
\* clientName the client-map entry of the code ('ONE' -> 'One NZ') or the
\* code itself when unmapped, activeCount and completedCount the numbers of
\* records fetched and html the report built from those lists; one record in
\* progress and not with the client plus one on hold give activeCount 2, a
\* WITH US and an ON HOLD section of one entry each and no WITH YOU section.
C8_SuccessResponse ==
    (Done /\ SuppliedCode # <<>> /\ outcomes = <<"ok", "ok">>
          /\ (fetched # <<>> \/ ret[2] # <<>>)) =>
        /\ response.status = 200
        /\ response.json.clientCode = SuppliedCode
        /\ SuppliedCode = <<"ONE">> => response.json.clientName = <<"One", "NZ">>
        /\ SuppliedCode = <<"XYZ">> => response.json.clientName = <<"XYZ">>
        /\ response.json.activeCount = Len(fetched)
        /\ response.json.completedCount = Len(ret[2])
        /\ \E date \in Dates :
              Html = build_wip_email(response.json.clientName, fetched, ret[2], date)
        /\ (/\ Len(fetched) = 2
            /\ \E i, j \in 1..2 :
                  /\ fetched[i].status = "In Progress" /\ ~fetched[i].with_client
                  /\ fetched[j].status = "On Hold") =>
              /\ response.json.activeCount = 2
              /\ Rendered(1) /\ Entries(TheSection(1)) = 1
              /\ Rendered(3) /\ Entries(TheSection(3)) = 1
              /\ ~Rendered(2)

C8_Witness ==
    /\ Is200
    /\ SuppliedCode = <<"ONE">>
    /\ response.json.clientName = <<"One", "NZ">>
    /\ Len(fetched) = 2
    /\ fetched[1].status = "In Progress" /\ ~fetched[1].with_client
    /\ fetched[2].status = "On Hold"
    /\ response.json.activeCount = 2
    /\ ~Rendered(2)

\* C9: a request makes at most three outbound calls, one after another and
\* each at most once: the active-records query first, the completed-records
\* query only after the active-records query returned successfully, and no
\* call after one that failed.
C9_CallsSequential ==
    /\ Len(calls) <= 3
    /\ calls \in {<<>>, <<"active">>, <<"active", "completed">>}
    /\ Len(outcomes) <= Len(calls) /\ Len(calls) <= Len(outcomes) + 1
    /\ Len(calls) = 2 => (outcomes # <<>> /\ outcomes[1] = "ok")
    /\ \A i \in DOMAIN outcomes : outcomes[i] = "error" => Len(calls) = i

C9_Witness ==
    /\ Done
    /\ calls = <<"active", "completed">>
    /\ outcomes = <<"ok", "error">>

\* C10: provided every active record the store returns has status 'In
\* Progress' or 'On Hold', every 200 answer has an html with at least one of
\* the four sections and an activeCount equal to the sum of the counts the
\* WITH US, WITH YOU and ON HOLD headers display.
ShownCount(i) ==
    IF Rendered(i) THEN Displayed(TheSection(i), SectionHeads[i].title) ELSE 0

C10_CountsAddUp ==
    (Is200 /\ \A p \in Range(fetched) : Recognized(p)) =>
        /\ \E i \in DOMAIN SectionHeads : Rendered(i)
        /\ response.json.activeCount =
              ShownCount(1) + ShownCount(2) + ShownCount(3)

C10_Witness ==
    /\ Is200
    /\ Len(fetched) = 2
    /\ \A p \in Range(fetched) : Recognized(p)
    /\ ShownCount(2) = 1 /\ ShownCount(3) = 1
    /\ response.json.activeCount = 2

====
